---- MODULE Spec2Model ----
(***************************************************************************)
(* A model of ccut_framework.h: the test registry (a std::map filled by    *)
(* RegisterTest objects during static initialisation), the runner          *)
(* test_main with its per-test try/catch, and the assertion functions.     *)
(*                                                                         *)
(* Strings sent to std::cout are TLA+ strings; the byte 0x1B (written      *)
(* "\033" in the source) has no TLA+ escape and is written ESC below.      *)
(* Test names are byte sequences, because std::map orders its keys with    *)
(* std::less<std::string>, which compares bytes.                           *)
(***************************************************************************)
EXTENDS Integers, Sequences, FiniteSets, TLC

VARIABLES
    pc,        \* "static_init", "crashed" (SIGSEGV during static initialisation),
               \* "loop" (inside test_main's for), "done", "terminated"
    units,     \* the number of translation units of the program that include the header
    declared,  \* the RegisterTest constructions so far, in construction order, each
               \* with the unit whose map it reached and when it took place
    tests,     \* the std::map `tests` of each unit (the variable is static: one map
               \* per unit), as the sequence of its entries in iteration order
    constructed,  \* the units whose map `tests` has been constructed
    r_constructed,  \* whether the function-local static r of the body `registers`
               \* has been constructed
    it,        \* position of the range-for iterator in the map test_main iterates
    failures,  \* test_main's local vector `failures`
    out,       \* what was written to std::cout, one element per output statement
    invoked,   \* the entries whose procedure test_main has called, in call order
    ret,       \* test_main's return value (-1 before it returns)
    apc,       \* assertion harness: "idle", "ready", "returned"
    call,      \* assertion harness: the assertion call being made
    result     \* assertion harness: how the assertion call ended

vars == <<pc, units, declared, tests, constructed, r_constructed, it, failures, out, invoked,
          ret, apc, call, result>>
runner_vars == <<pc, units, declared, tests, constructed, r_constructed, it, failures, out,
                 invoked, ret>>
assert_vars == <<apc, call, result>>

----------------------------------------------------------------------------
(* Bounds of the model *)

\* the number of RegisterTest objects constructed before main
MaxDecl == 3

----------------------------------------------------------------------------
(* Terminal formatter *)

ESC == "<ESC>"

colors_none == 0
colors_bold == 1
colors_red == 31
colors_green == 32
colors_yellow == 33

\* operator<<(std::ostream&, int) for one decimal digit
DigitChar(d) ==
    CASE d = 0 -> "0" [] d = 1 -> "1" [] d = 2 -> "2" [] d = 3 -> "3" [] d = 4 -> "4"
      [] d = 5 -> "5" [] d = 6 -> "6" [] d = 7 -> "7" [] d = 8 -> "8" [] d = 9 -> "9"

RECURSIVE DecNat(_)
DecNat(n) == IF n < 10 THEN DigitChar(n) ELSE DecNat(n \div 10) \o DigitChar(n % 10)

\* operator<<(std::ostream&, int): decimal, with a sign for negative values
Dec(n) == IF n < 0 THEN "-" \o DecNat(-n) ELSE DecNat(n)

\* ansi(codes): "\033[" then the codes joined by ';' then 'm'
RECURSIVE ansi_join(_, _)
ansi_join(codes, i) ==
    IF i > Len(codes) THEN ""
    ELSE Dec(codes[i]) \o (IF i + 1 <= Len(codes) THEN ";" ELSE "") \o ansi_join(codes, i + 1)

\* the build: assert is compiled in unless NDEBUG is defined
NDEBUG == FALSE

\* a failed assert: abort() raises SIGABRT and nothing is returned
Aborted == [signal |-> "SIGABRT"]

ansi(codes) ==
    IF ~NDEBUG /\ Len(codes) = 0 THEN Aborted
    ELSE ESC \o "[" \o ansi_join(codes, 1) \o "m"

\* operator<<(std::ostream&, colors)
color(code) == ansi(<<code>>)

----------------------------------------------------------------------------
(* Test names *)

\* the names used by the model: "B", "a", "aB" as bytes
Names == { <<66>>, <<97>>, <<97, 66>> }

Chr(c) == CASE c = 66 -> "B" [] c = 97 -> "a"

\* the text of a name, as it is written to std::cout
RECURSIVE Str(_)
Str(name) == IF name = <<>> THEN "" ELSE Chr(Head(name)) \o Str(Tail(name))

\* std::less<std::string>: lexicographic comparison of the bytes
key_less(a, b) ==
    \E i \in 1..Len(b) :
        /\ i - 1 <= Len(a)
        /\ \A j \in 1..(i - 1) : a[j] = b[j]
        /\ (i <= Len(a) => a[i] < b[i])

----------------------------------------------------------------------------
(* Registry *)

\* a registry that keeps registration order: a new key goes to the end
map_emplace_back(m, name, func) ==
    IF \E i \in 1..Len(m) : m[i].first = name
    THEN m
    ELSE Append(m, [first |-> name, second |-> func])

\* a registry whose later registration replaces the procedure, as
\* tests[name] = func does
map_insert_or_assign(m, name, func) ==
    IF \E i \in 1..Len(m) : m[i].first = name
    THEN [i \in 1..Len(m) |->
            IF m[i].first = name THEN [first |-> name, second |-> func] ELSE m[i]]
    ELSE LET k == Cardinality({i \in 1..Len(m) : key_less(m[i].first, name)})
         IN  SubSeq(m, 1, k) \o <<[first |-> name, second |-> func]>> \o SubSeq(m, k + 1, Len(m))

\* std::map::emplace: no effect when the key is present, otherwise the new
\* entry goes after every entry whose key is less
map_emplace(m, name, func) ==
    IF \E i \in 1..Len(m) : ~key_less(m[i].first, name) /\ ~key_less(name, m[i].first)
    THEN m
    ELSE LET k == Cardinality({i \in 1..Len(m) : key_less(m[i].first, name)})
         IN  SubSeq(m, 1, k) \o <<[first |-> name, second |-> func]>> \o SubSeq(m, k + 1, Len(m))

\* `tests` is static, so every unit that includes the header has a map of its
\* own; main, and with it the test_main that runs, is in unit "main"
NoTests == [main |-> <<>>, other |-> <<>>]

\* the maps that `tests` in RegisterTest's constructor may denote.  The
\* constructor is an inline member with external linkage that names a static
\* variable: in a program of two units its definitions differ, the behaviour
\* is undefined, and a construction reaches the map of the unit it is written
\* in (the constructor inlined) or of the unit whose copy the linker kept
bound_tests(n_units) == IF n_units = 1 THEN {"main"} ELSE {"main", "other"}

\* RegisterTest::RegisterTest(name, func), `tests` denoting the map of `into`
RegisterTest(ts, into, name, func) == [ts EXCEPT ![into] = map_emplace(@, name, func)]

\* the position of the entry with key `name`
map_find(m, name) == CHOOSE i \in 1..Len(m) : m[i].first = name

----------------------------------------------------------------------------
(* Raised objects and the outcome of a call *)

\* a call either returns, or throws an object of one of three kinds:
\* "ccut_exception" (reason, line), "std::exception" (msg is what()),
\* "other" (anything else, such as an int)
Returns == [threw |-> FALSE, type |-> "none", reason |-> "", line |-> 0, msg |-> ""]
Throw_ccut_exception(reason, line) ==
    [threw |-> TRUE, type |-> "ccut_exception", reason |-> reason, line |-> line, msg |-> ""]
Throw_std_exception(msg) ==
    [threw |-> TRUE, type |-> "std::exception", reason |-> "", line |-> 0, msg |-> msg]
Throw_other ==
    [threw |-> TRUE, type |-> "other", reason |-> "", line |-> 0, msg |-> ""]

\* a what() that leaves the line out
ccut_exception_what_reason_only(e) == e.reason

\* ccut_exception::what()
ccut_exception_what(e) ==
    "Line " \o color(colors_bold) \o Dec(e.line) \o color(colors_none) \o ": " \o e.reason

----------------------------------------------------------------------------
(* Assertion functions *)

assert_true(expr, str, line) ==
    IF ~expr
    THEN Throw_ccut_exception("Expected TRUE, but was FALSE: \"" \o str \o "\"", line)
    ELSE Returns

assert_false(expr, str, line) ==
    IF expr
    THEN Throw_ccut_exception("Expected FALSE, but was TRUE: \"" \o str \o "\"", line)
    ELSE Returns

\* operator== / operator!= of the template arguments, here on integers
assert_equal(lhs, rhs, lhs_str, rhs_str, line) ==
    IF ~(lhs = rhs)
    THEN Throw_ccut_exception("Expected EQUAL, but was NOT EQUAL: [" \o lhs_str \o "]"
                              \o " and [" \o rhs_str \o "]", line)
    ELSE Returns

assert_unequal(lhs, rhs, lhs_str, rhs_str, line) ==
    IF ~(lhs # rhs)
    THEN Throw_ccut_exception("Expected UNEQUAL, but was NOT UNEQUAL: [" \o lhs_str \o "]"
                              \o " and [" \o rhs_str \o "]", line)
    ELSE Returns

(* Floating-point values.  A value is NaN, +infinity, -infinity, or a finite *)
(* multiple q of 2^-28.  Every finite value of the model has |q| <= 2^28,   *)
(* so it is exact both as a long double and as a double, and so are the      *)
(* differences the model forms: the arithmetic below is the arithmetic of    *)
(* the machine on these inputs, with no rounding.                            *)
Fin(q) == [cls |-> "fin", q |-> q]
NaN == [cls |-> "nan", q |-> 0]
PInf == [cls |-> "pinf", q |-> 0]
NInf == [cls |-> "ninf", q |-> 0]

\* long double subtraction (IEEE 754)
ld_sub(a, b) ==
    IF a.cls = "nan" \/ b.cls = "nan" THEN NaN
    ELSE IF a.cls = "fin" /\ b.cls = "fin" THEN Fin(a.q - b.q)
    ELSE IF a.cls = "fin" THEN (IF b.cls = "pinf" THEN NInf ELSE PInf)
    ELSE IF b.cls = "fin" THEN a
    ELSE IF a.cls = b.cls THEN NaN
    ELSE a

\* std::abs(long double)
std_abs(a) ==
    IF a.cls = "nan" THEN NaN
    ELSE IF a.cls = "fin" THEN Fin(IF a.q < 0 THEN -a.q ELSE a.q)
    ELSE PInf

\* allowable_error is the double nearest 0.0001, which is
\* 26843.5456000000129... in units of 2^-28: this is its integer part
allowable_error_floor == 26843

\* real_error > allowable_error: false when real_error is NaN; a finite
\* real_error is a whole number of units, so it exceeds allowable_error
\* exactly when it exceeds its integer part
exceeds_allowable_error(real_error) ==
    IF real_error.cls = "nan" THEN FALSE
    ELSE IF real_error.cls = "fin" THEN real_error.q > allowable_error_floor
    ELSE real_error.cls = "pinf"

assert_almost_equal(lhs, rhs, lhs_str, rhs_str, line) ==
    LET real_error == std_abs(ld_sub(lhs, rhs))   \* narrowed to double: exact here
    IN  IF exceeds_allowable_error(real_error)
        THEN Throw_ccut_exception("Expected ALMOST EQUAL, but was NOT ALMOST EQUAL: ["
                                  \o lhs_str \o "]" \o " and [" \o rhs_str \o "]", line)
        ELSE Returns

\* a CCUT_DETERMINE_THROW written with catch (...)
CCUT_DETERMINE_THROW_catch_all(f) ==
    IF f.threw
    THEN [varname |-> TRUE, propagated |-> Returns]
    ELSE [varname |-> FALSE, propagated |-> Returns]

\* CCUT_DETERMINE_THROW(func_call, varname): f is how func_call ends.
\* Only std::exception is caught; anything else leaves the macro's try block.
CCUT_DETERMINE_THROW(f) ==
    IF f.threw /\ f.type = "std::exception"
    THEN [varname |-> TRUE, propagated |-> Returns]
    ELSE IF f.threw
    THEN [varname |-> FALSE, propagated |-> f]
    ELSE [varname |-> FALSE, propagated |-> Returns]

\* CCUT_ASSERT_EXCEPTION_IMPL(func_call), func_call_str being #func_call
ASSERT_EXCEPTION(f, func_call_str, line) ==
    LET d == CCUT_DETERMINE_THROW(f)
    IN  IF d.propagated.threw THEN d.propagated
        ELSE IF ~d.varname
        THEN Throw_ccut_exception("Expected EXCEPTION, but got NO EXCEPTION: \""
                                  \o func_call_str \o "\"", line)
        ELSE Returns

\* CCUT_ASSERT_NO_EXCEPTION_IMPL(func_call)
ASSERT_NO_EXCEPTION(f, func_call_str, line) ==
    LET d == CCUT_DETERMINE_THROW(f)
    IN  IF d.propagated.threw THEN d.propagated
        ELSE IF d.varname
        THEN Throw_ccut_exception("Expected NO EXCEPTION, but got EXCEPTION: \""
                                  \o func_call_str \o "\"", line)
        ELSE Returns

----------------------------------------------------------------------------
(* Test procedures *)

\* the test procedures of the model, each a TEST(funcname) body
Funcs == { "passes", "fails", "throws_std", "throws_unknown", "registers" }

\* test.second(): how the body of the procedure ends
\*   passes            : {}
\*   fails             : { ASSERT_TRUE(false); }                 on line 10
\*   throws_std        : { throw std::runtime_error("boom"); }
\*   throws_unknown    : { throw 42; }
\*   registers         : { static RegisterTest r("a", &fails); }
Invoke(func) ==
    CASE func = "passes" -> Returns
      [] func = "fails" -> assert_true(FALSE, "false", 10)
      [] func = "throws_std" -> Throw_std_exception("boom")
      [] func = "throws_unknown" -> Throw_other
      [] func = "registers" -> Returns

\* the RegisterTest objects a call of the procedure constructs: r is a
\* function-local static, constructed by the first call that reaches it
Constructs(func, r_exists) ==
    IF func = "registers" /\ ~r_exists
    THEN <<[first |-> <<97>>, second |-> "fails"]>>
    ELSE <<>>

----------------------------------------------------------------------------
(* Runner *)

\* a try block without the catch (...) handler
catch_clause_without_catch_all(o) ==
    IF ~o.threw THEN "none"
    ELSE IF o.type = "ccut_exception" THEN "ccut_exception"
    ELSE IF o.type = "std::exception" THEN "std::exception"
    ELSE "uncaught"

\* the handler of test_main's try block that an outcome reaches, in the
\* order the handlers are written; "uncaught" if none matches
catch_clause(o) ==
    IF ~o.threw THEN "none"
    ELSE IF o.type = "ccut_exception" THEN "ccut_exception"
    ELSE IF o.type = "std::exception" THEN "std::exception"
    ELSE "..."

\* what the try block or the handler writes after the "Running test" text
label_output(clause) ==
    CASE clause = "none" -> color(colors_green) \o "PASS\n" \o color(colors_none)
      [] clause = "ccut_exception" -> color(colors_red) \o "FAIL\n" \o color(colors_none)
      [] clause = "std::exception" ->
            color(colors_yellow) \o "EXCEPTION\n" \o color(colors_none)
      [] clause = "..." ->
            ansi(<<colors_red, colors_bold>>) \o "UNRECOGNIZED EXCEPTION\n"
            \o color(colors_none)

\* handlers that put the new record in front of the others
failures_push_front(fs, name, clause, o) ==
    CASE clause = "none" -> fs
      [] clause = "ccut_exception" ->
            <<[first |-> name, second |-> ccut_exception_what(o)]>> \o fs
      [] clause = "std::exception" ->
            <<[first |-> name, second |-> "Unexpected exception: " \o o.msg]>> \o fs
      [] clause = "..." ->
            <<[first |-> name, second |-> "Totally unknown error was thrown!"]>> \o fs

\* failures after the try statement of one iteration
failures_push_back(fs, name, clause, o) ==
    CASE clause = "none" -> fs
      [] clause = "ccut_exception" ->
            Append(fs, [first |-> name, second |-> ccut_exception_what(o)])
      [] clause = "std::exception" ->
            Append(fs, [first |-> name, second |-> "Unexpected exception: " \o o.msg])
      [] clause = "..." ->
            Append(fs, [first |-> name, second |-> "Totally unknown error was thrown!"])

(* size_t is 64 bits wide.  A size_t value is written as five digits in    *)
(* base 10000, the least significant first, so that 2^64 - 1 has a place.   *)

\* 2^64 = 18446744073709551616
size_t_modulus == <<1616, 955, 737, 6744, 1844>>

\* the size_t of a container size n (n below 2^31)
size_t_of(n) == <<n % 10000, (n \div 10000) % 10000, (n \div 10000) \div 10000, 0, 0>>

limbs_less(a, b) ==
    \E i \in 1..5 : a[i] < b[i] /\ \A j \in (i + 1)..5 : a[j] = b[j]

\* a - b for a >= b, digit by digit with borrow
limbs_sub(a, b) ==
    [i \in 1..5 |->
        LET borrow == IF \E k \in 1..(i - 1) :
                            a[k] < b[k] /\ \A j \in (k + 1)..(i - 1) : a[j] = b[j]
                      THEN 1 ELSE 0
        IN  (a[i] - b[i] - borrow) % 10000]

\* a - b in size_t: modulo 2^64
size_t_sub(a, b) ==
    IF limbs_less(a, b) THEN limbs_sub(size_t_modulus, limbs_sub(b, a))
    ELSE limbs_sub(a, b)

\* operator<<(std::ostream&, size_t): decimal
Dec_size_t(a) ==
    LET top == IF \E i \in 1..5 : a[i] # 0
               THEN CHOOSE i \in 1..5 : a[i] # 0 /\ \A j \in (i + 1)..5 : a[j] = 0
               ELSE 1
        Digits4(d) == DigitChar(d \div 1000) \o DigitChar((d \div 100) % 10)
                      \o DigitChar((d \div 10) % 10) \o DigitChar(d % 10)
        Low[i \in 0..5] == IF i = 0 THEN "" ELSE Low[i - 1] \o Digits4(a[top - i])
    IN  DecNat(a[top]) \o Low[top - 1]

\* the subtraction with its operands exchanged
passed_count_swapped(n_tests, n_failures) ==
    size_t_sub(size_t_of(n_failures), size_t_of(n_tests))

\* tests.size() - failures.size(), in size_t
passed_count(n_tests, n_failures) == size_t_sub(size_t_of(n_tests), size_t_of(n_failures))

\* the failure lines written by the loop over `failures`
failure_lines(fs) ==
    [i \in 1..Len(fs) |-> " -> [" \o Str(fs[i].first) \o "] " \o fs[i].second \o "\n"]

\* everything test_main writes after the loop over `tests`
report_output(fs, n_tests) ==
    (IF Len(fs) # 0 THEN <<"\n- - - Failures - - -\n">> \o failure_lines(fs) ELSE <<>>)
    \o <<"\n">>
    \o <<"Total passed: [" \o Dec_size_t(passed_count(n_tests, Len(fs))) \o " / "
         \o Dec_size_t(size_t_of(n_tests)) \o "]\n">>

\* a return value that tells whether a test failed
test_main_return_failed(fs) == IF Len(fs) # 0 THEN 1 ELSE 0

\* the value test_main returns
test_main_return(fs) == 0

\* the assertion harness does not move while the runner does
NoCall ==
    [kind |-> "none", expr |-> FALSE, a |-> 0, b |-> 0, x |-> NaN, y |-> NaN,
     f |-> Returns, str |-> "", rhs_str |-> "", line |-> 0]

\* static initialisation, line 69: the map `tests` of a unit is constructed.
\* The units are initialised in an order the build fixes; within a unit the
\* map comes before the RegisterTest objects, which are defined after it
ConstructTests ==
    /\ pc = "static_init"
    /\ \E u \in bound_tests(units) \ constructed :
          /\ constructed' = constructed \cup {u}
          /\ tests' = [tests EXCEPT ![u] = <<>>]
    /\ UNCHANGED <<pc, units, declared, r_constructed, it, failures, out, invoked, ret,
                   assert_vars>>

\* static initialisation (TEST): one RegisterTest object of namespace scope
\* is constructed, before main is entered, in a unit whose map exists.  When
\* `tests` in the constructor denotes the map of a unit that is initialised
\* later, emplace is called on a map that is not constructed yet: the
\* program ends with SIGSEGV before main
StaticInitialisation ==
    /\ pc = "static_init"
    /\ constructed # {}
    /\ Len(declared) < MaxDecl
    /\ \E name \in Names, func \in Funcs, into \in bound_tests(units) :
          /\ declared' = Append(declared, [first |-> name, second |-> func,
                                           into |-> into, during |-> "static_init"])
          /\ IF into \in constructed
             THEN /\ tests' = RegisterTest(tests, into, name, func)
                  /\ pc' = pc
             ELSE /\ tests' = tests
                  /\ pc' = "crashed"
    /\ UNCHANGED <<units, constructed, r_constructed, it, failures, out, invoked, ret,
                   assert_vars>>

\* main() calls test_main(): failures is constructed empty and the
\* range-for starts at tests.begin()
EnterTestMain ==
    /\ pc = "static_init"
    /\ constructed = bound_tests(units)
    /\ pc' = "loop"
    /\ failures' = <<>>
    /\ it' = 1
    /\ UNCHANGED <<units, declared, tests, constructed, r_constructed, out, invoked, ret,
                   assert_vars>>

\* one iteration of the loop over `tests`.  The body may construct
\* RegisterTest objects; an insertion leaves the loop's iterator on its
\* element, and ++ then moves it to the next entry of the map as it is now
RunTest ==
    /\ pc = "loop"
    /\ it <= Len(tests.main)
    /\ \E into \in bound_tests(units) :
          LET test == tests.main[it]
              o == Invoke(test.second)
              made == Constructs(test.second, r_constructed)
              tests_after == IF made = <<>> THEN tests
                             ELSE RegisterTest(tests, into, made[1].first, made[1].second)
              clause == catch_clause(o)
              running == "Running test \"" \o Str(test.first) \o "\" . . . "
          IN  /\ invoked' = Append(invoked, test)
              /\ tests' = tests_after
              /\ r_constructed' = (r_constructed \/ made # <<>>)
              /\ declared' = declared \o
                    [i \in 1..Len(made) |->
                        [first |-> made[i].first, second |-> made[i].second,
                         into |-> into, during |-> "run"]]
              /\ IF clause = "uncaught"
                 THEN /\ pc' = "terminated"
                      /\ out' = out \o <<running>>
                      /\ UNCHANGED <<failures, it>>
                 ELSE /\ pc' = pc
                      /\ out' = out \o <<running, label_output(clause)>>
                      /\ failures' = failures_push_back(failures, test.first, clause, o)
                      /\ it' = map_find(tests_after.main, test.first) + 1
    /\ UNCHANGED <<units, constructed, ret, assert_vars>>

\* after the loop: the failures section, the summary, return
Report ==
    /\ pc = "loop"
    /\ it > Len(tests.main)
    /\ out' = out \o report_output(failures, Len(tests.main))
    /\ ret' = test_main_return(failures)
    /\ pc' = "done"
    /\ UNCHANGED <<units, declared, tests, constructed, r_constructed, it, failures, invoked,
                   assert_vars>>

Init ==
    /\ pc = "static_init"
    /\ units \in {1, 2}
    /\ declared = <<>>
    /\ tests = NoTests
    /\ constructed = {}
    /\ r_constructed = FALSE
    /\ it = 0
    /\ failures = <<>>
    /\ out = <<>>
    /\ invoked = <<>>
    /\ ret = -1
    /\ apc = "idle"
    /\ call = NoCall
    /\ result = Returns

Next ==
    \/ ConstructTests
    \/ StaticInitialisation
    \/ EnterTestMain
    \/ RunTest
    \/ Report

Spec == Init /\ [][Next]_vars

----------------------------------------------------------------------------
(* Assertion harness: one assertion call, with arguments drawn from small   *)
(* sets, is made and its outcome recorded in `result`.                      *)

\* finite arguments of assert_almost_equal, in units of 2^-28:
\* 26843 units = 0.0000999979..., 26844 units = 0.0001000016...,
\* 26847 units = 0.0001000128... (the first multiple above 0.00010001)
AlmostArgs ==
    { Fin(q) : q \in {0, 1, 26843, 26844, 26847, -26843, -26844, 268435456} }
    \cup { NaN, PInf, NInf }

\* how the call inside ASSERT_EXCEPTION / ASSERT_NO_EXCEPTION may end
CalleeOutcomes ==
    { Returns, Throw_std_exception("boom"), Throw_other,
      Throw_ccut_exception("inner", 7) }

CallLines == { 10, 42 }

Calls ==
    { [NoCall EXCEPT !.kind = k, !.expr = e, !.str = "flag", !.line = l] :
          k \in {"assert_true", "assert_false"}, e \in BOOLEAN, l \in CallLines }
    \cup
    { [NoCall EXCEPT !.kind = k, !.a = a, !.b = b, !.str = "lhs", !.rhs_str = "rhs",
                     !.line = l] :
          k \in {"assert_equal", "assert_unequal"}, a \in 0..1, b \in 0..1,
          l \in CallLines }
    \cup
    { [NoCall EXCEPT !.kind = "assert_almost_equal", !.x = x, !.y = y, !.str = "lhs",
                     !.rhs_str = "rhs", !.line = l] :
          x \in AlmostArgs, y \in AlmostArgs, l \in {10} }
    \cup
    { [NoCall EXCEPT !.kind = k, !.f = f, !.str = "f()", !.line = l] :
          k \in {"ASSERT_EXCEPTION", "ASSERT_NO_EXCEPTION"}, f \in CalleeOutcomes,
          l \in CallLines }

Finish(r) ==
    /\ apc = "ready"
    /\ result' = r
    /\ apc' = "returned"
    /\ UNCHANGED <<call, runner_vars>>

Call_assert_true ==
    call.kind = "assert_true" /\ Finish(assert_true(call.expr, call.str, call.line))

Call_assert_false ==
    call.kind = "assert_false" /\ Finish(assert_false(call.expr, call.str, call.line))

Call_assert_equal ==
    /\ call.kind = "assert_equal"
    /\ Finish(assert_equal(call.a, call.b, call.str, call.rhs_str, call.line))

Call_assert_unequal ==
    /\ call.kind = "assert_unequal"
    /\ Finish(assert_unequal(call.a, call.b, call.str, call.rhs_str, call.line))

Call_assert_almost_equal ==
    /\ call.kind = "assert_almost_equal"
    /\ Finish(assert_almost_equal(call.x, call.y, call.str, call.rhs_str, call.line))

Call_ASSERT_EXCEPTION ==
    /\ call.kind = "ASSERT_EXCEPTION"
    /\ Finish(ASSERT_EXCEPTION(call.f, call.str, call.line))

Call_ASSERT_NO_EXCEPTION ==
    /\ call.kind = "ASSERT_NO_EXCEPTION"
    /\ Finish(ASSERT_NO_EXCEPTION(call.f, call.str, call.line))

AssertInit ==
    /\ pc = "static_init"
    /\ units = 1
    /\ declared = <<>>
    /\ tests = NoTests
    /\ constructed = {}
    /\ r_constructed = FALSE
    /\ it = 0
    /\ failures = <<>>
    /\ out = <<>>
    /\ invoked = <<>>
    /\ ret = -1
    /\ apc = "ready"
    /\ call \in Calls
    /\ result = Returns

AssertNext ==
    \/ Call_assert_true
    \/ Call_assert_false
    \/ Call_assert_equal
    \/ Call_assert_unequal
    \/ Call_assert_almost_equal
    \/ Call_ASSERT_EXCEPTION
    \/ Call_ASSERT_NO_EXCEPTION

AssertSpec == AssertInit /\ [][AssertNext]_vars

\* the loop of test_main goes on until it returns: nothing else runs.  The
\* loop reads and writes the map of its own unit only, and the programs taken
\* here are those of one unit
OneUnitInit == Init /\ units = 1

FairSpec == OneUnitInit /\ [][Next]_vars /\ WF_vars(RunTest) /\ WF_vars(Report)

----------------------------------------------------------------------------
(* Properties *)

Range(s) == { s[i] : i \in 1..Len(s) }

IsPrefix(s, t) == Len(s) <= Len(t) /\ \A i \in 1..Len(s) : s[i] = t[i]

StrictlyAscending(s) == \A i \in 1..(Len(s) - 1) : key_less(s[i].first, s[i + 1].first)

\* the entries of s whose procedure does not return normally
NonPassing(s) == SelectSeq(s, LAMBDA t : Invoke(t.second).threw)

\* the (name, procedure) pairs of a sequence of constructions
Pairs(d) == [i \in 1..Len(d) |-> [first |-> d[i].first, second |-> d[i].second]]

\* the constructions of static initialisation that reached the map of unit u
StaticDecls(u) ==
    Pairs(SelectSeq(declared, LAMBDA d : d.during = "static_init" /\ d.into = u))

\* the registry that a sequence of RegisterTest constructions leaves
RECURSIVE RegistryOf(_)
RegistryOf(d) ==
    IF d = <<>> THEN <<>>
    ELSE LET e == d[Len(d)]
         IN  map_emplace(RegistryOf(SubSeq(d, 1, Len(d) - 1)), e.first, e.second)

\* the registry test_main iterates, as it is when test_main is entered
StartRegistry == RegistryOf(StaticDecls("main"))

\* the four labels, byte for byte
LabelPASS == "<ESC>[32mPASS\n<ESC>[0m"
LabelFAIL == "<ESC>[31mFAIL\n<ESC>[0m"
LabelEXCEPTION == "<ESC>[33mEXCEPTION\n<ESC>[0m"
LabelUNRECOGNIZED == "<ESC>[31;1mUNRECOGNIZED EXCEPTION\n<ESC>[0m"

ExpectedLabel(o) ==
    IF ~o.threw THEN LabelPASS
    ELSE IF o.type = "ccut_exception" THEN LabelFAIL
    ELSE IF o.type = "std::exception" THEN LabelEXCEPTION
    ELSE LabelUNRECOGNIZED

\* the message of a failure record, the line number of a FailureSignal in bold
ExpectedMessage(o) ==
    IF o.type = "ccut_exception"
    THEN "Line <ESC>[1m" \o Dec(o.line) \o "<ESC>[0m: " \o o.reason
    ELSE IF o.type = "std::exception" THEN "Unexpected exception: " \o o.msg
    ELSE "Totally unknown error was thrown!"

\* the message of a failure record, the line number of a FailureSignal plain
PlainMessage(o) ==
    IF o.type = "ccut_exception"
    THEN "Line " \o Dec(o.line) \o ": " \o o.reason
    ELSE IF o.type = "std::exception" THEN "Unexpected exception: " \o o.msg
    ELSE "Totally unknown error was thrown!"

\* the tests invoked so far carry the labels, and the failure list the
\* messages, that Message gives
Classified(Message(_)) ==
    LET np == NonPassing(invoked)
    IN  /\ Len(out) >= 2 * Len(invoked)
        /\ \A i \in 1..Len(invoked) :
              /\ out[2 * i - 1] = "Running test \"" \o Str(invoked[i].first) \o "\" . . . "
              /\ out[2 * i] = ExpectedLabel(Invoke(invoked[i].second))
              /\ out[2 * i] \in {LabelPASS, LabelFAIL, LabelEXCEPTION, LabelUNRECOGNIZED}
        /\ Len(failures) = Len(np)
        /\ \A k \in 1..Len(np) :
              failures[k] = [first |-> np[k].first, second |-> Message(Invoke(np[k].second))]

\* C1: whatever the tests do, no raised object escapes test_main; a test
\* that raised does not keep a later one from being invoked: every entry the
\* registry held when test_main was entered and that the loop has passed has
\* been invoked; at the end each of these entries has been invoked exactly
\* once, no test twice, and test_main has written the summary; and test_main
\* always gets there
C1_Containment ==
    /\ [](pc # "terminated")
    /\ [](pc = "loop" =>
            \A e \in Range(StartRegistry) :
                map_find(tests.main, e.first) < it => e \in Range(invoked))
    /\ [](pc = "done" =>
            /\ \A e \in Range(StartRegistry) :
                  Cardinality({i \in 1..Len(invoked) : invoked[i] = e}) = 1
            /\ \A i, j \in 1..Len(invoked) : invoked[i].first = invoked[j].first => i = j
            /\ Range(invoked) \subseteq Range(tests.main)
            /\ out[Len(out)] = "Total passed: ["
                  \o Dec(Len(tests.main) - Len(NonPassing(invoked))) \o " / "
                  \o Dec(Len(tests.main)) \o "]\n")
    /\ (pc = "loop" ~> pc = "done")

\* a run in which a test raising an unrecognized object and one raising a
\* recognized error or a FailureSignal were each followed by another test,
\* and the summary was reached
C1_Witness ==
    /\ pc = "done"
    /\ Len(StartRegistry) = 3
    /\ Len(invoked) = 3
    /\ Invoke(invoked[1].second).type = "other"
    /\ Invoke(invoked[2].second).threw
    /\ Invoke(invoked[2].second).type # "other"

\* C2 (as amended): every invoked test gets exactly one of the four labels,
\* the first that matches: PASS if it raises nothing; FAIL, with the message
\* 'Line ' ESC[1m <line> ESC[0m ': ' <reason>, if it raises a FailureSignal;
\* EXCEPTION, with 'Unexpected exception: ' and the description, if it raises
\* another recognized error; UNRECOGNIZED EXCEPTION, with 'Totally unknown
\* error was thrown!', otherwise
C2_Classification == pc \in {"loop", "done"} => Classified(ExpectedMessage)

\* C2 as stated: the message of a FAIL record is 'Line <line>: <reason>'
C2_AsStated == pc \in {"loop", "done"} => Classified(PlainMessage)

\* a run gave the labels PASS, FAIL and EXCEPTION and recorded two failures
C2_Witness ==
    /\ pc = "loop"
    /\ Len(failures) = 2
    /\ \E i, j, k \in 1..Len(invoked) :
          /\ out[2 * i] = LabelPASS
          /\ out[2 * j] = LabelFAIL
          /\ out[2 * k] = LabelEXCEPTION

\* the orders in which the same RegisterTest constructions can take place
Reorderings(d) ==
    { [i \in 1..Len(d) |-> d[p[i]]] : p \in Permutations(1..Len(d)) }

\* no name was registered with two different procedures
OneProcedurePerName(d) ==
    \A i, j \in 1..Len(d) : d[i].first = d[j].first => d[i].second = d[j].second

\* the tests invoked among those registered before the run
InvokedOf(d) == SelectSeq(invoked, LAMBDA t : \E i \in 1..Len(d) : d[i].first = t.first)

\* the pairs registered before the run are invoked in their name-sorted
\* order, whatever the order of the registrations
OrderFixedByRegisteredSet ==
    LET d == StaticDecls("main")
    IN  /\ Range(InvokedOf(d)) = Range(d)
        /\ Len(InvokedOf(d)) = Cardinality(Range(d))
        /\ \A r \in Reorderings(d) : RegistryOf(r) = InvokedOf(d)

\* C3 (as amended): tests run one at a time in strictly ascending
\* lexicographic (byte) order of their names, whatever the registration
\* order; and when no name is registered with two different procedures, the
\* completed run invokes the pairs registered before it, into the registry
\* test_main iterates, in name-sorted order, so any two sequences of such
\* registrations with the same set of pairs run alike
C3_NameOrder ==
    /\ StrictlyAscending(invoked)
    /\ (pc = "done" /\ OneProcedurePerName(StaticDecls("main"))) => OrderFixedByRegisteredSet

\* C3 as stated: also when a name is registered with two procedures
C3_AsStated == pc = "done" => OrderFixedByRegisteredSet

\* three tests registered in an order that is not the name order have run
C3_Witness ==
    /\ pc = "done"
    /\ Len(StaticDecls("main")) = 3
    /\ Len(invoked) = 3
    /\ key_less(StaticDecls("main")[3].first, StaticDecls("main")[1].first)
    /\ key_less(StaticDecls("main")[1].first, StaticDecls("main")[2].first)

\* the lines of the Failures section, from the failure list
ExpectedFailureLines(fs) ==
    [k \in 1..Len(fs) |-> " -> [" \o Str(fs[k].first) \o "] " \o fs[k].second \o "\n"]

FailuresHeader == "\n- - - Failures - - -\n"

\* C4: the failure list only grows at its end; at every point it is the
\* sequence of (name, message) of the non-passing tests among those invoked
\* so far, in invocation order; and the Failures section is written iff the
\* list is not empty, one line per record in list order
C4_FailureList ==
    /\ [][IsPrefix(failures, failures') /\ Len(failures') <= Len(failures) + 1]_vars
    /\ [](LET np == NonPassing(invoked)
          IN  failures = [k \in 1..Len(np) |->
                            [first |-> np[k].first,
                             second |-> ExpectedMessage(Invoke(np[k].second))]])
    /\ [](pc = "done" =>
            LET base == 2 * Len(invoked)
            IN  /\ (FailuresHeader \in Range(out)) <=> (failures # <<>>)
                /\ failures = <<>> => Len(out) = base + 2
                /\ failures # <<>> =>
                      /\ Len(out) = base + 1 + Len(failures) + 2
                      /\ out[base + 1] = FailuresHeader
                      /\ SubSeq(out, base + 2, base + 1 + Len(failures))
                            = ExpectedFailureLines(failures))

\* a finished run with a passing test between two failing ones
C4_Witness ==
    /\ pc = "done"
    /\ Len(invoked) = 3
    /\ Len(failures) = 2
    /\ ~Invoke(invoked[2].second).threw
    /\ failures[1].second # failures[2].second

RECURSIVE Join(_)
Join(chunks) == IF chunks = <<>> THEN "" ELSE Head(chunks) \o Join(Tail(chunks))

\* the entries of the registry whose test raised an error
Raised == { i \in 1..Len(tests.main) :
              tests.main[i] \in Range(invoked) /\ Invoke(tests.main[i].second).threw }

\* C5: the last line written is 'Total passed: [<passed> / <total>]', total
\* the number of registered tests and passed the number of them that raised
\* no error; passed is total minus the number of failure records, a size_t
\* subtraction that never wraps, so 0 <= passed <= total; with no test
\* registered the whole output is a blank line and 'Total passed: [0 / 0]'
C5_Summary ==
    /\ pc \in {"loop", "done"} =>
          /\ Len(failures) <= Len(tests.main)
          /\ passed_count(Len(tests.main), Len(failures))
                = size_t_of(Len(tests.main) - Len(failures))
          /\ Len(tests.main) - Len(failures) \in 0..Len(tests.main)
    /\ pc = "done" =>
          LET total == Len(tests.main)
              passed == total - Cardinality(Raised)
          IN  /\ Len(failures) = Cardinality(Raised)
              /\ out[Len(out) - 1] = "\n"
              /\ out[Len(out)] = "Total passed: [" \o Dec(passed) \o " / " \o Dec(total) \o "]\n"
              /\ total = 0 => Join(out) = "\nTotal passed: [0 / 0]\n"

\* a finished run in which one test passed and two did not
C5_Witness ==
    /\ pc = "done"
    /\ Len(tests.main) = 3
    /\ Len(invoked) = 3
    /\ Len(failures) = 2
    /\ out[Len(out)] = "Total passed: [1 / 3]\n"

\* C6: test_main returns 0 in every run, also when every test fails
C6_ReturnsZero == pc = "done" => ret = 0

\* a finished run in which each of three tests failed
C6_Witness ==
    /\ pc = "done"
    /\ Len(tests.main) = 3
    /\ Len(failures) = 3
    /\ ret = 0

\* C7: ASSERT_EXCEPTION(f) returns normally iff f raises a recognized error,
\* ASSERT_NO_EXCEPTION(f) iff f raises nothing; an object f raises that is
\* not a recognized error (a FailureSignal included) leaves either assertion
\* unchanged, not replaced by the assertion's own FailureSignal
C7_ExceptionAssertions ==
    (apc = "returned" /\ call.kind \in {"ASSERT_EXCEPTION", "ASSERT_NO_EXCEPTION"}) =>
        /\ call.kind = "ASSERT_EXCEPTION" =>
              (~result.threw <=> (call.f.threw /\ call.f.type = "std::exception"))
        /\ call.kind = "ASSERT_NO_EXCEPTION" => (~result.threw <=> ~call.f.threw)
        /\ (call.f.threw /\ call.f.type # "std::exception") => result = call.f
        /\ (result.threw /\ ~(call.f.threw /\ call.f.type # "std::exception")) =>
              /\ result.type = "ccut_exception"
              /\ result.line = call.line

\* ASSERT_NO_EXCEPTION was handed a call raising a FailureSignal, and that
\* FailureSignal came out of it
C7_Witness ==
    /\ apc = "returned"
    /\ call.kind = "ASSERT_NO_EXCEPTION"
    /\ call.f.type = "ccut_exception"
    /\ result.threw
    /\ result.line = 7

\* |x - y| <= 0.0001 for values in units of 2^-28: only finite values have a
\* difference, and d units are at most 0.0001 iff d * 10000 <= 2^28
WithinTolerance(x, y) ==
    /\ x.cls = "fin"
    /\ y.cls = "fin"
    /\ (IF x.q - y.q < 0 THEN y.q - x.q ELSE x.q - y.q) <= (2 ^ 28) \div 10000

\* C8: assert_almost_equal(x, y) returns normally iff |x - y| <= 0.0001,
\* for every pair of inputs
C8_AlmostEqual ==
    (apc = "returned" /\ call.kind = "assert_almost_equal") =>
        (~result.threw <=> WithinTolerance(call.x, call.y))

\* C9: every declared test is registered before test_main invokes the first
\* test, and its name then has exactly one entry in the registry the runner
\* iterates; every test invoked is an entry of that registry; and a step of
\* the run in which no test body constructs a RegisterTest leaves the
\* registry as it is
C9_RegistrationFirst ==
    /\ [](invoked # <<>> => pc # "static_init")
    /\ [](pc # "static_init" =>
            /\ \A i \in 1..Len(declared) :
                  declared[i].during = "static_init" =>
                      Cardinality({k \in 1..Len(tests.main) :
                                      tests.main[k].first = declared[i].first}) = 1
            /\ Range(invoked) \subseteq Range(tests.main))
    /\ [][(pc # "static_init" /\ declared' = declared) => tests' = tests]_vars

\* the procedure of the first registration of a name in the map of unit u
FirstRegistered(u, name) ==
    declared[CHOOSE i \in 1..Len(declared) :
                /\ declared[i].into = u
                /\ declared[i].first = name
                /\ \A j \in 1..(i - 1) :
                      ~(declared[j].into = u /\ declared[j].first = name)].second

\* C10: the names in a registry are pairwise different; a registration
\* whose name is present changes nothing (the size and the first procedure
\* stay, nothing is raised); test_main runs the first procedure only
C10_DuplicateIgnored ==
    /\ [](\A u \in DOMAIN tests :
            /\ \A i, j \in 1..Len(tests[u]) : tests[u][i].first = tests[u][j].first => i = j
            /\ \A i \in 1..Len(tests[u]) :
                  tests[u][i].second = FirstRegistered(u, tests[u][i].first))
    /\ [](\A i \in 1..Len(invoked) :
            invoked[i].second = FirstRegistered("main", invoked[i].first))
    /\ [][(/\ Len(declared') = Len(declared) + 1
           /\ LET e == declared'[Len(declared')]
              IN  \E i \in 1..Len(tests[e.into]) : tests[e.into][i].first = e.first)
          => (tests' = tests /\ pc' = pc)]_vars

\* a name was registered twice with different procedures in the registry
\* test_main iterates, and the run is over
C10_Witness ==
    /\ pc = "done"
    /\ Len(declared) = 3
    /\ Len(tests.main) = 2
    /\ declared[1].into = "main"
    /\ declared[3].into = "main"
    /\ declared[1].first = declared[3].first
    /\ declared[1].second # declared[3].second

====
